---- MODULE Spec2Model ----
(***************************************************************************)
(* Model of the UR3e teleoperation GUI (airo_teleop/ur3e_teleop_gui.py)    *)
(* and of the robot finder (find_robot.py).                                *)
(*                                                                         *)
(* The Tk main loop runs one handler at a time (the UI thread); the        *)
(* control threads and the scan threads are daemon threads that interleave *)
(* with it statement by statement.  A handler is one action, except where  *)
(* it waits for a thread (stop_control's join) or reads shared data twice  *)
(* (save_recording).                                                       *)
(***************************************************************************)
EXTENDS Integers, Sequences, FiniteSets, TLC

\* ---------------------------------------------------------------- bounds
\* threads that start_control may create in one behaviour
MaxThreads == 2
\* samples that may be built in one behaviour (logical clock of time.time())
MaxClock == 2
\* scan threads that scan_for_robots may create in one behaviour
MaxScans == 2
\* last host number probed in each /24 (the code probes 1 .. 254)
MaxHost == 2
\* hosts that answer on port 30004 during one sweep
MaxRobots == 2

\* ------------------------------------------------------------- constants
\* networks = ["192.168.0", "192.168.1", "10.42.0"], by index
networks == <<"192.168.0", "192.168.1", "10.42.0">>

\* first host number of range(1, 255)
FirstHost == 1

\* Python's None, and the objects held by the attributes
None == [type |-> "NoneType"]

URrtde(ip, withGripper) == [type |-> "URrtde", ip |-> ip, gripper |-> withGripper]

GameControllerTeleop == [type |-> "GameControllerTeleop"]

\* control_thread = None is thread 0
NoThread == 0

Threads == 1 .. MaxThreads

\* an address f"{network}.{i}" is the pair <<index of network, i>>
Addr(n, i) == <<n, i>>

\* text of the address combobox: a sequence in which 0 is a blank
Texts == {<<>>, <<0>>, <<0, 1, 1, 0>>}

RECURSIVE lstrip(_)
lstrip(s) == IF s # <<>> /\ Head(s) = 0 THEN lstrip(Tail(s)) ELSE s

RECURSIVE rstrip(_)
rstrip(s) ==
  IF s # <<>> /\ s[Len(s)] = 0 THEN rstrip(SubSeq(s, 1, Len(s) - 1)) ELSE s

\* str.strip()
strip(s) == rstrip(lstrip(s))

VARIABLES
  window,               \* "open" | "destroyed" (root.destroy())
  uiPc,                 \* where the UI thread is: "idle" | "join" | "saving"
  uiCaller,             \* caller of the stop_control in progress
  lastOp,               \* last handler that ran to its end, and how it ended
  robot, teleop, controller_connected, is_recording, recording_data,
  control_thread, running,
  robot_combo, robot_status, connect_btn,
  start_btn, stop_btn, record_btn, save_btn, record_status,
  pc,                   \* pc[t]: position of control thread t in control_loop
  tick,                 \* tick[t]: what thread t did in its latest tick
  clock,                \* logical time.time(): samples built so far
  pendingLen,           \* save_recording: len(recording_data) already taken
  scanning, scan_btn, combo_values,
  scan,                 \* scan[s]: state of scan thread s
  afterQueue,           \* callbacks posted with root.after(0, ...)
  fr                    \* find_robot.scan_network: its run

uiVars == <<window, uiPc, uiCaller, lastOp>>

connVars == <<robot, robot_combo, robot_status, connect_btn>>

ctlVars == <<teleop, controller_connected, control_thread, running,
             start_btn, stop_btn, record_btn>>

recVars == <<is_recording, recording_data, save_btn, record_status,
             clock, pendingLen>>

thrVars == <<pc, tick>>

scanVars == <<scanning, scan_btn, combo_values, scan, afterQueue>>

vars == <<uiVars, connVars, ctlVars, recVars, thrVars, scanVars, fr>>

\* text of the robot_status label
NotConnected == [text |-> "Not Connected", ip |-> <<>>]

ConnectedTo(ip) == [text |-> "Connected to", ip |-> ip]

Op(name, outcome) == [op |-> name, outcome |-> outcome]

\* a scan thread before it is started
NoScan == [pc |-> "unborn", net |-> 1, i |-> FirstHost, robots |-> <<>>,
           probes |-> <<>>, cancelled |-> FALSE, completions |-> 0]

\* find_robot.scan_network while find_robot.py is not run
NoFind == [pc |-> "off", net |-> 1, i |-> FirstHost, found_robots |-> <<>>,
           probes |-> <<>>]

\* __init__ (lines 22-38): state variables, setup_ui, then check_controller,
\* which finds a controller or not
InitGui ==
  /\ window = "open" /\ uiPc = "idle" /\ uiCaller = "none"
  /\ controller_connected \in BOOLEAN
  /\ lastOp = Op("check_controller",
                 IF controller_connected THEN "detected" ELSE "none")
  /\ robot = None /\ teleop = None
  /\ is_recording = FALSE /\ recording_data = <<>>
  /\ control_thread = NoThread /\ running = FALSE
  /\ robot_combo = <<>> /\ robot_status = NotConnected
  /\ connect_btn = "connect_robot"
  /\ start_btn = "disabled" /\ stop_btn = "disabled"
  /\ record_btn = "disabled" /\ save_btn = "disabled"
  /\ record_status = [text |-> "Not Recording", points |-> 0]
  /\ pc = [t \in Threads |-> "unborn"]
  /\ tick = [t \in Threads |-> <<>>]
  /\ clock = 0 /\ pendingLen = 0
  /\ scanning = FALSE /\ scan_btn = "normal" /\ combo_values = <<>>
  /\ scan = [s \in 1 .. MaxScans |-> NoScan]
  /\ afterQueue = <<>>

\* the application is launched
Init == InitGui /\ fr = NoFind

\* the UI thread is in the main loop, between two handlers
Idle == window = "open" /\ uiPc = "idle"

\* ------------------------------------------------------------ UI handlers

\* update_button_states, line 309
CanStart(r, cc, run) == r # None /\ cc /\ ~run

\* update_button_states (lines 306-313), with the robot and running it reads
update_button_states(r, run) ==
  /\ start_btn' = IF CanStart(r, controller_connected, run)
                  THEN "normal" ELSE "disabled"
  /\ stop_btn' = IF run THEN "normal" ELSE "disabled"
  /\ record_btn' = IF run THEN "normal" ELSE "disabled"

\* the user edits the address in the combobox
EditCombo(text) ==
  /\ Idle
  /\ robot_combo # text
  /\ robot_combo' = text
  /\ UNCHANGED <<uiVars, robot, robot_status, connect_btn, ctlVars, recVars,
                 thrVars, scanVars, fr>>

\* check_controller (lines 194-213): joysticks = pygame.joystick.get_count(),
\* ok = FALSE when pygame raises
check_controller(joysticks, ok) ==
  /\ Idle
  /\ controller_connected' = (ok /\ joysticks > 0)
  /\ lastOp' = Op("check_controller",
                  IF ~ok THEN "error"
                  ELSE IF joysticks > 0 THEN "detected" ELSE "none")
  /\ UNCHANGED <<window, uiPc, uiCaller, connVars, teleop, control_thread,
                 running, start_btn, stop_btn, record_btn, recVars, thrVars,
                 scanVars, fr>>

\* connect_robot without the test of line 232
ConnectOutcome_IgnoresProbe(ip, sockOk, result, ctorOk) ==
  IF ip = <<>> THEN "empty_ip"
  ELSE IF ~sockOk THEN "probe_raised"
  ELSE IF ~ctorOk THEN "ctor_raised"
  ELSE "connected"

\* how connect_robot ends (lines 215-282): result is connect_ex's return
\* value, the other inputs say whether that call raises
ConnectOutcome(ip, sockOk, result, ctorOk) ==
  IF ip = <<>> THEN "empty_ip"
  ELSE IF ~sockOk THEN "probe_raised"
  ELSE IF result # 0 THEN "unreachable"
  ELSE IF ~ctorOk THEN "ctor_raised"
  ELSE "connected"

\* the inputs of connect_robot; a call that is not reached is given as ok
ConnectInputs ==
  {in \in [sockOk : BOOLEAN, result : {0, 111}, ctorOk : BOOLEAN,
           poseOk : BOOLEAN, gripperOk : BOOLEAN] :
     LET reached == in.sockOk /\ in.result = 0 /\ in.ctorOk
     IN /\ (~in.sockOk => in.result = 0)
        /\ (~(in.sockOk /\ in.result = 0) => in.ctorOk)
        /\ (~reached => in.poseOk /\ in.gripperOk)}

\* connect_robot (lines 215-282)
connect_robot(sockOk, result, ctorOk, poseOk, gripperOk) ==
  LET ip == strip(robot_combo)
      outcome == ConnectOutcome(ip, sockOk, result, ctorOk)
  IN
  /\ Idle
  /\ connect_btn = "connect_robot"
  /\ lastOp' = [op |-> "connect_robot", outcome |-> outcome,
                text |-> robot_combo,
                in |-> [sockOk |-> sockOk, result |-> result, ctorOk |-> ctorOk,
                        poseOk |-> poseOk, gripperOk |-> gripperOk]]
  /\ IF outcome = "connected"
     THEN /\ robot' = URrtde(ip, gripperOk)
          /\ robot_status' = ConnectedTo(ip)
          /\ connect_btn' = "disconnect_robot"
          /\ update_button_states(robot', running)
     ELSE UNCHANGED <<robot, robot_status, connect_btn, start_btn, stop_btn,
                      record_btn>>
  /\ UNCHANGED <<window, uiPc, uiCaller, robot_combo, teleop,
                 controller_connected, control_thread, running, recVars,
                 thrVars, scanVars, fr>>

\* toggle_recording without line 387: stopping leaves the Save button as it is
toggle_recording_body_SaveLeftDisabled ==
  IF ~is_recording
  THEN /\ is_recording' = TRUE
       /\ recording_data' = <<>>
       /\ record_status' = [text |-> "Recording...", points |-> 0]
       /\ save_btn' = "disabled"
  ELSE /\ is_recording' = FALSE
       /\ recording_data' = recording_data
       /\ record_status' = [text |-> "Recorded",
                            points |-> Len(recording_data)]
       /\ save_btn' = save_btn

\* toggle_recording (lines 375-388): the new values of the recorder's state
toggle_recording_body ==
  IF ~is_recording
  THEN /\ is_recording' = TRUE
       /\ recording_data' = <<>>
       /\ record_status' = [text |-> "Recording...", points |-> 0]
       /\ save_btn' = "disabled"
  ELSE /\ is_recording' = FALSE
       /\ recording_data' = recording_data
       /\ record_status' = [text |-> "Recorded",
                            points |-> Len(recording_data)]
       /\ save_btn' = "normal"

\* the Start/Stop Recording button
toggle_recording ==
  /\ Idle
  /\ record_btn = "normal"
  /\ toggle_recording_body
  /\ lastOp' = Op("toggle_recording", IF is_recording THEN "stopped"
                                                     ELSE "started")
  /\ UNCHANGED <<window, uiPc, uiCaller, connVars, ctlVars, clock, pendingLen,
                 thrVars, scanVars, fr>>

\* a thread that was started and has not left control_loop
Alive(t) ==
  t # NoThread /\ pc[t] \notin {"unborn", "done", "handled", "propagated"}

\* threading.Thread(target=self.control_loop): the next thread object
NewThread == CHOOSE t \in Threads :
               pc[t] = "unborn" /\ \A u \in Threads : pc[u] = "unborn" => t <= u

\* the guard of line 316 without its test of the controller
StartRefused_RobotOnly == robot = None

\* start_control, line 316: the guard that refuses to start
StartRefused == robot = None \/ ~controller_connected

\* start_control (lines 315-340); teleopOk = FALSE when the
\* GameControllerTeleop constructor raises
start_control(teleopOk) ==
  /\ Idle
  /\ start_btn = "normal"
  /\ \E t \in Threads : pc[t] = "unborn"
  /\ IF StartRefused
     THEN /\ lastOp' = Op("start_control", "refused")
          /\ UNCHANGED <<teleop, running, control_thread, pc, start_btn,
                         stop_btn, record_btn>>
     ELSE IF ~teleopOk
     THEN /\ lastOp' = Op("start_control", "teleop_raised")
          /\ UNCHANGED <<teleop, running, control_thread, pc, start_btn,
                         stop_btn, record_btn>>
     ELSE /\ teleop' = GameControllerTeleop
          /\ running' = TRUE
          /\ control_thread' = NewThread
          /\ pc' = [pc EXCEPT ![NewThread] = "loop"]
          /\ update_button_states(robot, running')
          /\ lastOp' = Op("start_control", "started")
  /\ UNCHANGED <<window, uiPc, uiCaller, connVars, controller_connected,
                 recVars, tick, scanVars, fr>>

\* stop_control without line 343: running is left as it is
StopControlBegin_KeepsRunning(caller) ==
  /\ running' = running
  /\ uiPc' = "join"
  /\ uiCaller' = caller
  /\ UNCHANGED <<window, lastOp, connVars, teleop, controller_connected,
                 control_thread, start_btn, stop_btn, record_btn, recVars,
                 thrVars, scanVars, fr>>

\* stop_control, lines 343-345: running = False, then the join begins
StopControlBegin(caller) ==
  /\ running' = FALSE
  /\ uiPc' = "join"
  /\ uiCaller' = caller
  /\ UNCHANGED <<window, lastOp, connVars, teleop, controller_connected,
                 control_thread, start_btn, stop_btn, record_btn, recVars,
                 thrVars, scanVars, fr>>

\* the Stop Control button
stop_control ==
  /\ Idle
  /\ stop_btn = "normal"
  /\ StopControlBegin("stop_btn")

\* disconnect_robot that leaves the button bound to disconnect_robot
DisconnectBody_KeepsButton ==
  /\ robot' = None
  /\ robot_status' = NotConnected
  /\ connect_btn' = connect_btn
  /\ update_button_states(robot', running)

\* disconnect_robot, lines 288-292
DisconnectBody ==
  /\ robot' = None
  /\ robot_status' = NotConnected
  /\ connect_btn' = "connect_robot"
  /\ update_button_states(robot', running)

\* on_closing, lines 434-436
CloseBody ==
  /\ scanning' = (IF scanning THEN FALSE ELSE scanning)
  /\ window' = "destroyed"

\* disconnect_robot (lines 284-292)
disconnect_robot ==
  /\ Idle
  /\ connect_btn = "disconnect_robot"
  /\ IF running
     THEN StopControlBegin("disconnect_robot")
     ELSE /\ DisconnectBody
          /\ lastOp' = Op("disconnect_robot", "disconnected")
          /\ UNCHANGED <<window, uiPc, uiCaller, robot_combo, teleop,
                         controller_connected, control_thread, running,
                         recVars, thrVars, scanVars, fr>>

\* on_closing (lines 431-436)
on_closing ==
  /\ Idle
  /\ IF running
     THEN StopControlBegin("on_closing")
     ELSE /\ CloseBody
          /\ lastOp' = Op("on_closing", "closed")
          /\ UNCHANGED <<uiPc, uiCaller, connVars, ctlVars, recVars, thrVars,
                         scan_btn, combo_values, scan, afterQueue, fr>>

\* the positions of control_loop at which a thread can stay for the 2 s of
\* the join: the calls to the robot (lines 359, 360, 394-396) and the Tk call
\* of the handler (line 370); elsewhere it sleeps 50 ms at most
BlockingCalls == {"servo_call", "gripper_call", "record", "except"}

\* stop_control, lines 345-352: join(timeout=2.0) returns, because the thread
\* has ended or, with the thread still in a call, because the 2 s are over;
\* then the rest of stop_control and of its caller
JoinReturn ==
  /\ window = "open"
  /\ uiPc = "join"
  /\ Alive(control_thread) => pc[control_thread] \in BlockingCalls
  /\ uiPc' = "idle"
  /\ uiCaller' = "none"
  /\ lastOp' = Op(uiCaller, IF Alive(control_thread) THEN "join_timeout"
                                                     ELSE "joined")
  /\ IF is_recording
     THEN toggle_recording_body
     ELSE UNCHANGED <<is_recording, recording_data, record_status, save_btn>>
  /\ teleop' = None
  /\ IF uiCaller = "disconnect_robot"
     THEN DisconnectBody
     ELSE /\ update_button_states(robot, running)
          /\ UNCHANGED <<robot, robot_status, connect_btn>>
  /\ IF uiCaller = "on_closing"
     THEN CloseBody
     ELSE UNCHANGED <<window, scanning>>
  /\ UNCHANGED <<robot_combo, controller_connected, control_thread, running,
                 clock, pendingLen, thrVars, scan_btn,
                 combo_values, scan, afterQueue, fr>>

\* save_recording whose warning branch (lines 401-403) also disables the
\* Save button
SaveBegin_DisablesButton ==
  /\ Idle
  /\ save_btn = "normal"
  /\ IF recording_data = <<>>
     THEN /\ lastOp' = Op("save_recording", "no_data")
          /\ save_btn' = "disabled"
          /\ UNCHANGED <<uiPc, pendingLen>>
     ELSE /\ uiPc' = "saving"
          /\ pendingLen' = Len(recording_data)
          /\ UNCHANGED <<lastOp, save_btn>>
  /\ UNCHANGED <<window, uiCaller, connVars, ctlVars, is_recording,
                 recording_data, record_status, clock, thrVars,
                 scanVars, fr>>

\* save_recording, lines 401-414: nothing to save, or the length is taken
\* for the metadata
SaveBegin ==
  /\ Idle
  /\ save_btn = "normal"
  /\ IF recording_data = <<>>
     THEN /\ lastOp' = Op("save_recording", "no_data")
          /\ UNCHANGED <<uiPc, pendingLen>>
     ELSE /\ uiPc' = "saving"
          /\ pendingLen' = Len(recording_data)
          /\ UNCHANGED lastOp
  /\ UNCHANGED <<window, uiCaller, connVars, ctlVars, is_recording,
                 recording_data, save_btn, record_status, clock, thrVars,
                 scanVars, fr>>

\* the document of json.dump (lines 410-417)
Document(points, data) ==
  [metadata |-> [robot_ip |-> robot_combo, data_points |-> points],
   data |-> data]

\* save_recording, lines 409-425: json.dump walks recording_data and writes
\* it; fileOk = FALSE when open or dump raises
SaveWrite(fileOk) ==
  /\ window = "open"
  /\ uiPc = "saving"
  /\ uiPc' = "idle"
  /\ pendingLen' = 0
  /\ IF fileOk
     THEN /\ save_btn' = "disabled"
          /\ lastOp' = [op |-> "save_recording", outcome |-> "saved",
                        file |-> Document(pendingLen, recording_data)]
     ELSE /\ lastOp' = Op("save_recording", "failed")
          /\ UNCHANGED save_btn
  /\ UNCHANGED <<window, uiCaller, connVars, ctlVars, is_recording,
                 recording_data, record_status, clock, thrVars, scanVars, fr>>

\* ------------------------------------------------- control_loop, thread t
\* time.sleep(1/20) (line 365) touches nothing shared: it is taken together
\* with the statement that ends the tick body.  log_status and
\* self.running = False of the handler (lines 370-371) are one step.
\* A thread ends "done" (the while condition was false), "handled" (the
\* handler of line 367 ran to its end) or "propagated" (an exception left
\* control_loop).

\* a step of thread t that touches only its own position and log
ThreadOnly ==
  UNCHANGED <<uiVars, connVars, ctlVars, recVars, scanVars, fr>>

\* line 357: while self.running
LoopCheck(t) ==
  /\ pc[t] = "loop"
  /\ pc' = [pc EXCEPT ![t] = IF running THEN "teleop_check" ELSE "done"]
  /\ tick' = [tick EXCEPT ![t] = <<>>]
  /\ ThreadOnly

\* lines 358, 365: if self.teleop, else the sleep
TeleopCheck(t) ==
  /\ pc[t] = "teleop_check"
  /\ pc' = [pc EXCEPT ![t] = IF teleop # None THEN "servo" ELSE "loop"]
  /\ UNCHANGED tick
  /\ ThreadOnly

\* self.teleop is read again for the call: AttributeError when it is None by
\* now, else the thread enters the method of the object it has read
TeleopRead(t, at, call) ==
  /\ pc[t] = at
  /\ IF teleop # None
     THEN /\ pc' = [pc EXCEPT ![t] = call]
          /\ UNCHANGED tick
     ELSE /\ pc' = [pc EXCEPT ![t] = "except"]
          /\ tick' = [tick EXCEPT ![t] = <<>>]
  /\ ThreadOnly

\* the call on the teleop object that was read, which holds the robot it was
\* built with (line 324): it commands the robot and returns, or it raises
\* (callOk = FALSE)
TeleopCall(t, at, cmd, next, callOk) ==
  /\ pc[t] = at
  /\ IF callOk
     THEN /\ pc' = [pc EXCEPT ![t] = next]
          /\ tick' = [tick EXCEPT ![t] = Append(@, cmd)]
     ELSE /\ pc' = [pc EXCEPT ![t] = "except"]
          /\ tick' = [tick EXCEPT ![t] = <<>>]
  /\ ThreadOnly

\* line 359: self.teleop of the servo call
ServoRead(t) == TeleopRead(t, "servo", "servo_call")

\* line 359: twist = self.teleop.read_twist_and_servo_to_target_position()
Servo(t, callOk) == TeleopCall(t, "servo_call", "servo", "gripper", callOk)

\* line 360: self.teleop of the gripper call
GripperRead(t) == TeleopRead(t, "gripper", "gripper_call")

\* line 360 calling the servo method a second time
Gripper_SentAsServo(t, callOk) ==
  TeleopCall(t, "gripper_call", "servo", "rec_check", callOk)

\* line 360: self.teleop.read_gripper_delta_and_move_gripper()
Gripper(t, callOk) ==
  TeleopCall(t, "gripper_call", "gripper", "rec_check", callOk)

\* lines 362, 365: if self.is_recording, else the sleep
RecCheck(t) ==
  /\ pc[t] = "rec_check"
  /\ IF is_recording
     THEN /\ pc' = [pc EXCEPT ![t] = "record_guard"]
          /\ UNCHANGED tick
     ELSE /\ pc' = [pc EXCEPT ![t] = "loop"]
          /\ tick' = [tick EXCEPT ![t] = Append(@, "sleep")]
  /\ ThreadOnly

\* record_data_point, line 391: if self.robot, else back to the sleep
RecordGuard(t) ==
  /\ pc[t] = "record_guard"
  /\ IF robot # None
     THEN /\ pc' = [pc EXCEPT ![t] = "record"]
          /\ UNCHANGED tick
     ELSE /\ pc' = [pc EXCEPT ![t] = "loop"]
          /\ tick' = [tick EXCEPT ![t] = Append(@, "sleep")]
  /\ ThreadOnly

\* the data_point of lines 392-397, taken at time now
Sample(now) == [timestamp |-> now]

\* record_data_point, lines 392-398, and the sleep: self.robot is read again
\* for the pose (AttributeError when it is None by now; readOk = FALSE when a
\* read of the robot raises), then the sample is appended to
\* self.recording_data
Record(t, readOk) ==
  /\ pc[t] = "record"
  /\ IF robot # None /\ readOk
     THEN /\ clock < MaxClock
          /\ clock' = clock + 1
          /\ recording_data' = Append(recording_data, Sample(clock'))
          /\ pc' = [pc EXCEPT ![t] = "loop"]
          /\ tick' = [tick EXCEPT ![t] = @ \o <<"sample", "sleep">>]
     ELSE /\ pc' = [pc EXCEPT ![t] = "except"]
          /\ tick' = [tick EXCEPT ![t] = <<>>]
          /\ UNCHANGED <<clock, recording_data>>
  /\ UNCHANGED <<uiVars, connVars, ctlVars, is_recording, save_btn,
                 record_status, pendingLen, scanVars, fr>>

\* lines 367-371: the handler logs through Tk from the control thread, then
\* sets self.running = False and control_loop returns; with the window
\* destroyed the Tk call raises and the error leaves control_loop
Except(t) ==
  /\ pc[t] = "except"
  /\ IF window = "open"
     THEN /\ running' = FALSE
          /\ pc' = [pc EXCEPT ![t] = "handled"]
     ELSE /\ pc' = [pc EXCEPT ![t] = "propagated"]
          /\ UNCHANGED running
  /\ UNCHANGED <<uiVars, connVars, teleop, controller_connected,
                 control_thread, start_btn, stop_btn, record_btn, recVars,
                 tick, scanVars, fr>>

\* control_loop (lines 354-373): one step of thread t
control_loop(t) ==
  \/ LoopCheck(t)
  \/ TeleopCheck(t)
  \/ ServoRead(t)
  \/ \E callOk \in BOOLEAN : Servo(t, callOk)
  \/ GripperRead(t)
  \/ \E callOk \in BOOLEAN : Gripper(t, callOk)
  \/ RecCheck(t)
  \/ RecordGuard(t)
  \/ \E readOk \in BOOLEAN : Record(t, readOk)
  \/ Except(t)

\* ------------------------------------------------------- network scan

Scans == 1 .. MaxScans

\* a scan thread that was started and has not left scan_thread
ScanAlive(s) == scan[s].pc \notin {"unborn", "done", "propagated"}

\* threading.Thread(target=scan_thread): the next thread object
NewScan == CHOOSE s \in Scans :
             scan[s].pc = "unborn"
             /\ \A u \in Scans : scan[u].pc = "unborn" => s <= u

\* scan_for_robots without line 44: the button stays enabled
scan_for_robots_ButtonLeftEnabled ==
  /\ Idle
  /\ scan_btn = "normal"
  /\ \E s \in Scans : scan[s].pc = "unborn"
  /\ scanning' = TRUE
  /\ scan' = [scan EXCEPT ![NewScan].pc = "net_check"]
  /\ lastOp' = Op("scan_for_robots", "started")
  /\ UNCHANGED <<window, uiPc, uiCaller, connVars, ctlVars, recVars, thrVars,
                 scan_btn, combo_values, afterQueue, fr>>

\* scan_for_robots (lines 40-73), the Scan Network button
scan_for_robots ==
  /\ Idle
  /\ scan_btn = "normal"
  /\ \E s \in Scans : scan[s].pc = "unborn"
  /\ scan_btn' = "disabled"
  /\ scanning' = TRUE
  /\ scan' = [scan EXCEPT ![NewScan].pc = "net_check"]
  /\ lastOp' = Op("scan_for_robots", "started")
  /\ UNCHANGED <<window, uiPc, uiCaller, connVars, ctlVars, recVars, thrVars,
                 combo_values, afterQueue, fr>>

\* a step of scan thread s that touches only its own state
ScanOnly ==
  UNCHANGED <<uiVars, connVars, ctlVars, recVars, thrVars, scanning, scan_btn,
              combo_values, afterQueue, fr>>

\* lines 52-54: the next network, if any, and the check of self.scanning
ScanNetCheck(s) ==
  /\ scan[s].pc = "net_check"
  /\ scan' = [scan EXCEPT ![s] =
       IF @.net > Len(networks) THEN [@ EXCEPT !.pc = "post"]
       ELSE IF ~scanning THEN [@ EXCEPT !.pc = "post", !.cancelled = TRUE]
       ELSE [@ EXCEPT !.pc = "net_log"]]
  /\ ScanOnly

\* lines 55-56 and 66-68: log_status through Tk from the scan thread; with
\* the window destroyed it raises, and so does the log_status of the handler,
\* which ends the thread before line 70
ScanNetLog(s) ==
  /\ scan[s].pc = "net_log"
  /\ scan' = [scan EXCEPT ![s] =
       IF window = "open" THEN [@ EXCEPT !.pc = "host_check", !.i = FirstHost]
       ELSE [@ EXCEPT !.pc = "propagated"]]
  /\ ScanOnly

\* lines 58-60: the next host number of range(1, 255), if any, and the check
\* of self.scanning; the break leaves the inner loop only
ScanHostCheck(s) ==
  /\ scan[s].pc = "host_check"
  /\ scan' = [scan EXCEPT ![s] =
       IF @.i > MaxHost THEN [@ EXCEPT !.pc = "net_check", !.net = @ + 1]
       ELSE IF ~scanning
       THEN [@ EXCEPT !.pc = "net_check", !.net = @ + 1, !.cancelled = TRUE]
       ELSE [@ EXCEPT !.pc = "probe"]]
  /\ ScanOnly

\* check_ur_robot with the test of line 82 inverted
check_ur_robot_Inverted(sockOk, result) == sockOk /\ result # 0

\* check_ur_robot (lines 75-87): result is connect_ex's return value,
\* sockOk = FALSE when the socket calls raise
check_ur_robot(sockOk, result) == sockOk /\ result = 0

\* one entry of the log of probes: the address and whether connect returned 0
Probe(ip, sockOk, result) == [ip |-> ip, zero |-> (sockOk /\ result = 0)]

\* lines 61-64: one probe of the sweep
ScanProbe(s, sockOk, result) ==
  LET ip == Addr(scan[s].net, scan[s].i) IN
  /\ scan[s].pc = "probe"
  /\ (sockOk /\ result = 0) => Len(scan[s].robots) < MaxRobots
  /\ scan' = [scan EXCEPT ![s] =
       [@ EXCEPT !.pc = "host_check",
                 !.i = @ + 1,
                 !.probes = Append(@, Probe(ip, sockOk, result)),
                 !.robots = IF check_ur_robot(sockOk, result)
                            THEN Append(@, ip) ELSE @]]
  /\ ScanOnly

\* the callback of line 70 with its argument; the log of the sweep that
\* produced the argument goes with it
Callback(s) ==
  [scan |-> s, robots |-> scan[s].robots, probes |-> scan[s].probes,
   cancelled |-> scan[s].cancelled]

\* line 70: self.root.after(0, lambda: self.scan_complete(robots)), the last
\* statement of the thread, whose locals are gone after it; with the window
\* destroyed the Tk call raises
ScanPost(s) ==
  /\ scan[s].pc = "post"
  /\ IF window = "open"
     THEN /\ afterQueue' = Append(afterQueue, Callback(s))
          /\ scan' = [scan EXCEPT ![s] = [NoScan EXCEPT !.pc = "done"]]
     ELSE /\ scan' = [scan EXCEPT ![s] = [NoScan EXCEPT !.pc = "propagated"]]
          /\ UNCHANGED afterQueue
  /\ UNCHANGED <<uiVars, connVars, ctlVars, recVars, thrVars, scanning,
                 scan_btn, combo_values, fr>>

\* the input of a probe; a result that is not read is given as 0
ProbeInputs ==
  {in \in [sockOk : BOOLEAN, result : {0, 111}] : ~in.sockOk => in.result = 0}

\* scan_thread (lines 46-70): one step of scan thread s
scan_thread(s) ==
  \/ ScanNetCheck(s)
  \/ ScanNetLog(s)
  \/ ScanHostCheck(s)
  \/ \E in \in ProbeInputs : ScanProbe(s, in.sockOk, in.result)
  \/ ScanPost(s)

\* scan_complete without line 92: the button stays disabled
scan_complete_ButtonLeftDisabled ==
  LET call == Head(afterQueue)
      robots == call.robots
  IN
  /\ Idle
  /\ afterQueue # <<>>
  /\ afterQueue' = Tail(afterQueue)
  /\ scanning' = FALSE
  /\ IF robots # <<>>
     THEN /\ combo_values' = robots
          /\ robot_combo' = robots[1]
     ELSE UNCHANGED <<combo_values, robot_combo>>
  /\ scan' = [scan EXCEPT ![call.scan].completions = @ + 1]
  /\ lastOp' = [op |-> "scan_complete", outcome |-> "reported",
                call |-> call]
  /\ UNCHANGED <<window, uiPc, uiCaller, robot, robot_status, connect_btn,
                 ctlVars, recVars, thrVars, scan_btn, fr>>

\* scan_complete (lines 89-99), run by the main loop for the oldest callback
scan_complete ==
  LET call == Head(afterQueue)
      robots == call.robots
  IN
  /\ Idle
  /\ afterQueue # <<>>
  /\ afterQueue' = Tail(afterQueue)
  /\ scanning' = FALSE
  /\ scan_btn' = "normal"
  /\ IF robots # <<>>
     THEN /\ combo_values' = robots
          /\ robot_combo' = robots[1]
     ELSE UNCHANGED <<combo_values, robot_combo>>
  /\ scan' = [scan EXCEPT ![call.scan].completions = @ + 1]
  /\ lastOp' = [op |-> "scan_complete", outcome |-> "reported",
                call |-> call]
  /\ UNCHANGED <<window, uiPc, uiCaller, robot, robot_status, connect_btn,
                 ctlVars, recVars, thrVars, fr>>

\* ------------------------------------------- find_robot.scan_network

\* lines 50-52: the call
FindStart ==
  /\ fr.pc = "start"
  /\ fr' = [fr EXCEPT !.pc = "probe"]
  /\ UNCHANGED <<uiVars, connVars, ctlVars, recVars, thrVars, scanVars>>

\* lines 54-69: one probe, then the next address of the two loops
FindProbe(sockOk, result) ==
  LET ip == Addr(fr.net, fr.i)
      lastOfNet == fr.i = MaxHost
  IN
  /\ fr.pc = "probe"
  /\ (sockOk /\ result = 0) => Len(fr.found_robots) < MaxRobots
  /\ fr' = [fr EXCEPT
       !.probes = Append(@, [ip |-> ip, sockOk |-> sockOk, result |-> result]),
       !.found_robots = IF sockOk /\ result = 0 THEN Append(@, ip) ELSE @,
       !.i = IF lastOfNet THEN FirstHost ELSE @ + 1,
       !.net = IF lastOfNet THEN @ + 1 ELSE @,
       !.pc = IF lastOfNet /\ fr.net = Len(networks) THEN "return" ELSE "probe"]
  /\ UNCHANGED <<uiVars, connVars, ctlVars, recVars, thrVars, scanVars>>

\* ------------------------------------------------------- specifications

\* the handlers of the connection manager and of Start/Stop Control
ConnUI ==
  \/ \E text \in Texts : EditCombo(text)
  \/ \E joysticks \in {0, 1} : check_controller(joysticks, TRUE)
  \/ check_controller(0, FALSE)
  \/ \E in \in ConnectInputs :
       connect_robot(in.sockOk, in.result, in.ctorOk, in.poseOk, in.gripperOk)
  \/ disconnect_robot
  \/ \E teleopOk \in BOOLEAN : start_control(teleopOk)
  \/ stop_control
  \/ JoinReturn
  \/ on_closing

\* control_loop while the recorder is never armed: one step of thread t
control_loop_unarmed(t) ==
  \/ LoopCheck(t)
  \/ TeleopCheck(t)
  \/ ServoRead(t)
  \/ \E callOk \in BOOLEAN : Servo(t, callOk)
  \/ GripperRead(t)
  \/ \E callOk \in BOOLEAN : Gripper(t, callOk)
  \/ RecCheck(t)
  \/ Except(t)

NextConn == ConnUI \/ \E t \in Threads : control_loop_unarmed(t)

\* the application from its start: connection manager and teleop loop
SpecConn == Init /\ [][NextConn]_vars

\* the state after the robot at the address typed in was connected, with a
\* controller detected
InitCtl ==
  /\ window = "open" /\ uiPc = "idle" /\ uiCaller = "none"
  /\ controller_connected = TRUE
  /\ robot_combo = <<0, 1, 1, 0>>
  /\ lastOp = [op |-> "connect_robot", outcome |-> "connected",
               text |-> robot_combo,
               in |-> [sockOk |-> TRUE, result |-> 0, ctorOk |-> TRUE,
                       poseOk |-> TRUE, gripperOk |-> TRUE]]
  /\ robot = URrtde(strip(robot_combo), TRUE)
  /\ robot_status = ConnectedTo(strip(robot_combo))
  /\ connect_btn = "disconnect_robot"
  /\ teleop = None
  /\ is_recording = FALSE /\ recording_data = <<>>
  /\ control_thread = NoThread /\ running = FALSE
  /\ start_btn = "normal" /\ stop_btn = "disabled"
  /\ record_btn = "disabled" /\ save_btn = "disabled"
  /\ record_status = [text |-> "Not Recording", points |-> 0]
  /\ pc = [t \in Threads |-> "unborn"]
  /\ tick = [t \in Threads |-> <<>>]
  /\ clock = 0 /\ pendingLen = 0
  /\ scanning = FALSE /\ scan_btn = "normal" /\ combo_values = <<>>
  /\ scan = [s \in 1 .. MaxScans |-> NoScan]
  /\ afterQueue = <<>>
  /\ fr = NoFind

\* the handlers of Start/Stop Control and of the recorder
CtlUI ==
  \/ disconnect_robot
  \/ \E teleopOk \in BOOLEAN : start_control(teleopOk)
  \/ stop_control
  \/ JoinReturn
  \/ toggle_recording
  \/ SaveBegin
  \/ \E fileOk \in BOOLEAN : SaveWrite(fileOk)
  \/ on_closing

NextCtl == CtlUI \/ \E t \in Threads : control_loop(t)

\* teleoperation of a connected robot: control threads and recorder
SpecCtl == InitCtl /\ [][NextCtl]_vars

\* the handlers of the network scan
ScanUI ==
  \/ scan_for_robots
  \/ scan_complete
  \/ on_closing

NextScan == ScanUI \/ \E s \in Scans : scan_thread(s)

\* the network scan of the application
SpecScan == Init /\ [][NextScan]_vars

\* the network scan under fair scheduling: a scan thread that can take a
\* step takes one (the daemon threads are scheduled by the interpreter), and
\* the main loop runs a callback posted with root.after(0, ...) (line 429);
\* the user's actions, closing the window among them, are not forced
SpecScanFair ==
  /\ Init
  /\ [][NextScan]_vars
  /\ \A s \in Scans : WF_vars(scan_thread(s))
  /\ WF_vars(scan_complete)

\* either program is launched: the application, or find_robot.py without an
\* argument
InitSweep ==
  /\ \E launched \in {"off", "start"} : fr = [NoFind EXCEPT !.pc = launched]
  /\ InitGui

NextFind ==
  \/ FindStart
  \/ \E in \in ProbeInputs : FindProbe(in.sockOk, in.result)

NextSweep ==
  \/ fr.pc = "off" /\ NextScan
  \/ NextFind

\* the two network sweeps of the repository
SpecSweep == InitSweep /\ [][NextSweep]_vars

\* ------------------------------------------------------------------ C1
\* C1: at most one thread executing control_loop is alive at any time, also
\* after a join that timed out and a new start_control.
C1_SingleControlThread == Cardinality({t \in Threads : Alive(t)}) <= 1

\* ------------------------------------------------------------------ C2
\* C2: every append to recording_data happens in a state where is_recording
\* is true, and once a recording is stopped the list keeps the length that
\* was reported at the stop.
C2_AppendsOnlyWhileArmed ==
  /\ [][Len(recording_data') > Len(recording_data) => is_recording]_vars
  /\ [](~is_recording /\ record_status.text = "Recorded"
          => Len(recording_data) = record_status.points)

\* ------------------------------------------------------------------ C3
\* C3: self.robot is set exactly when the UI is in its connected state
\* (label "Connected to <ip>", button bound to disconnect_robot), so that
\* connect_robot cannot run while a robot is connected.
C3_ConnectedStateTracksRobot ==
  IF robot = None
  THEN robot_status = NotConnected /\ connect_btn = "connect_robot"
  ELSE robot_status = ConnectedTo(robot.ip) /\ connect_btn = "disconnect_robot"

\* a robot was connected and has been disconnected again
C3_Witness == lastOp.op = "disconnect_robot" /\ robot = None

\* ------------------------------------------------------------------ C4
\* the commands of a tick that entered its body and raised nothing
LegalTicks ==
  {<<"servo", "gripper", "sleep">>, <<"servo", "gripper", "sample", "sleep">>}

IsPrefix(p, q) == Len(p) <= Len(q) /\ SubSeq(q, 1, Len(p)) = p

\* C4: what a thread has done in a tick is a prefix of servo, gripper, at
\* most one sample, sleep; a tick that came back to the while condition did
\* all of it; the servo command is the first of its tick and the gripper
\* command follows it, so two servo commands of a thread have a gripper
\* command between them.
C4_TickOrder ==
  \A t \in Threads :
    /\ \E q \in LegalTicks : IsPrefix(tick[t], q)
    /\ pc[t] = "loop" => tick[t] = <<>> \/ tick[t] \in LegalTicks
    /\ pc[t] \in {"servo", "servo_call"} => tick[t] = <<>>
    /\ pc[t] \in {"gripper", "gripper_call"} => tick[t] = <<"servo">>
    /\ pc[t] \in {"rec_check", "record_guard", "record"}
         => tick[t] = <<"servo", "gripper">>

\* a thread has finished a tick in which it recorded a sample
C4_Witness ==
  \E t \in Threads :
    pc[t] = "loop" /\ tick[t] = <<"servo", "gripper", "sample", "sleep">>

\* ------------------------------------------------------------------ C5
\* C5: an exception raised in a tick never leaves control_loop: the handler
\* runs to its end, sets running to false and the thread ends.
C5_FailureHandledInLoop == \A t \in Threads : pc[t] # "propagated"

\* ------------------------------------------------------------------ C6
\* the addresses prefix.1 .. prefix.MaxHost of the prefixes, in order
AllAddrs ==
  [k \in 1 .. Len(networks) * MaxHost |->
     Addr(((k - 1) \div MaxHost) + 1, ((k - 1) % MaxHost) + 1)]

Ips(entries) == [k \in 1 .. Len(entries) |-> entries[k].ip]

NoDuplicates(q) == \A j, k \in 1 .. Len(q) : q[j] = q[k] => j = k

\* a sweep that probed all addresses in order and reports the answering ones
FullSweep(probed, answered, reported) ==
  /\ Ips(probed) = AllAddrs
  /\ reported = Ips(answered)
  /\ NoDuplicates(reported)

GuiSweep(call) ==
  FullSweep(call.probes, SelectSeq(call.probes, LAMBDA e : e.zero), call.robots)

\* C6: an uncancelled sweep probes every address once, in order, and reports
\* exactly the addresses whose connect returned 0, in probe order: the scan
\* thread at line 70, in the callback it posts and in scan_complete, and
\* find_robot.scan_network at its return.
C6_SweepReportsReachable ==
  /\ \A s \in Scans :
       scan[s].pc = "post" /\ ~scan[s].cancelled => GuiSweep(scan[s])
  /\ \A k \in 1 .. Len(afterQueue) :
       ~afterQueue[k].cancelled => GuiSweep(afterQueue[k])
  /\ lastOp.op = "scan_complete" /\ ~lastOp.call.cancelled
       => GuiSweep(lastOp.call)
  /\ fr.pc = "return"
       => FullSweep(fr.probes,
                    SelectSeq(fr.probes, LAMBDA e : e.sockOk /\ e.result = 0),
                    fr.found_robots)

\* scan_complete was handed the two hosts an uncancelled sweep found
C6_Witness ==
  /\ lastOp.op = "scan_complete"
  /\ ~lastOp.call.cancelled
  /\ Len(lastOp.call.robots) = 2

\* ------------------------------------------------------------------ C7
\* C7: at most one scan thread is alive, and the Scan button is disabled
\* from the start of a scan until its scan_complete has run.
C7_SingleScanThread ==
  /\ Cardinality({s \in Scans : ScanAlive(s)}) <= 1
  /\ (\E s \in Scans : ScanAlive(s)) \/ afterQueue # <<>>
       => scan_btn = "disabled"

\* a second scan runs after the first one was completed
C7_Witness ==
  \E s, u \in Scans : ScanAlive(s) /\ scan[u].completions = 1

C9_StartNeedsRobotAndController ==
  /\ [][(/\ lastOp' # lastOp
          /\ lastOp'.op = "start_control"
          /\ (robot = None \/ ~controller_connected))
         => (/\ teleop' = teleop
             /\ ~running'
             /\ pc' = pc
             /\ control_thread' = control_thread)]_vars
  /\ [][\A t \in Threads :
          pc[t] = "unborn" /\ pc'[t] # "unborn"
            => robot # None /\ controller_connected]_vars

\* Start Control was pressed after the controller had gone
C9_Witness ==
  /\ lastOp.op = "start_control"
  /\ lastOp.outcome = "refused"
  /\ ~controller_connected

\* ----------------------------------------------------------------- C10
\* C10: after a connect_robot with an empty address, a probe that raised or
\* returned non-zero, or a constructor that raised, the application is
\* disconnected and Start Control is disabled; otherwise it is connected,
\* whatever the pose check and the gripper did.
C10_FailedConnectStaysDisconnected ==
  lastOp.op = "connect_robot" =>
    LET in == lastOp.in
        ip == strip(lastOp.text)
        failed == ip = <<>> \/ ~in.sockOk \/ in.result # 0 \/ ~in.ctorOk
    IN IF failed
       THEN /\ robot = None
            /\ robot_status = NotConnected
            /\ connect_btn = "connect_robot"
            /\ start_btn = "disabled"
       ELSE /\ robot # None
            /\ robot_status = ConnectedTo(ip)
            /\ connect_btn = "disconnect_robot"

\* the constructor of the robot session raised
C10_Witness ==
  /\ lastOp.op = "connect_robot"
  /\ strip(lastOp.text) # <<>>
  /\ lastOp.in.sockOk /\ lastOp.in.result = 0
  /\ ~lastOp.in.ctorOk
  /\ robot = None

\* ----------------------------------------------------------------- C11
\* scan thread s runs a sweep that was stopped: scanning is false (only
\* stop_scan clears it while a scan thread is alive) and the thread has not
\* left its loops as a finished sweep
Stopped(s) ==
  /\ ScanAlive(s)
  /\ ~scanning
  /\ scan[s].pc = "post" => scan[s].cancelled

\* C11: once a sweep is stopped, its thread starts no probe beyond the one in
\* flight, and when it ends it has handed its callback, with the hosts found
\* so far, a prefix of the answering addresses, to the main loop for
\* scan_complete.
C11_StoppedScanIsReported ==
  [][\A s \in Scans :
       Stopped(s) =>
         /\ scan[s].pc # "probe" => scan'[s].pc # "probe"
         /\ scan'[s].pc \in {"done", "propagated"}
              => /\ afterQueue' = Append(afterQueue, Callback(s))
                 /\ IsPrefix(scan[s].robots,
                             Ips(SelectSeq(scan[s].probes,
                                           LAMBDA e : e.zero)))]_vars

\* ----------------------------------------------------------------- C12
\* C12: while the window stays open every scan that was started is handed to
\* scan_complete, once; right after scan_complete scanning is false and the
\* Scan button is enabled; scanning = true implies the button is disabled.
C12_EveryScanIsReported ==
  /\ \A s \in Scans :
       (scan[s].pc # "unborn")
         ~> (scan[s].completions = 1 \/ window = "destroyed")
  /\ [](\A s \in Scans : scan[s].completions <= 1)
  /\ [](lastOp.op = "scan_complete" => ~scanning /\ scan_btn = "normal")
  /\ [](scanning => scan_btn = "disabled")

\* the second scan was reported, with no host found
C12_Witness ==
  /\ lastOp.op = "scan_complete"
  /\ lastOp.call.scan = 2
  /\ lastOp.call.robots = <<>>
  /\ scan[1].completions = 1 /\ scan[2].completions = 1
  /\ ~scanning /\ scan_btn = "normal"

\* ----------------------------------------------------------------- C13
\* C13: a save_recording that finds recording_data empty writes no file and
\* changes neither recording_data, is_recording nor the Save button; a save
\* that succeeds does not change recording_data and disables the Save
\* button.  The steps of save_recording are those that end it (lastOp names
\* it) and the one that takes the length (uiPc becomes "saving").
C13_SaveWithNoData ==
  [][/\ (lastOp' # lastOp /\ lastOp'.op = "save_recording")
          => /\ recording_data' = recording_data
             /\ is_recording' = is_recording
             /\ lastOp'.outcome = "no_data"
                  => /\ recording_data = <<>>
                     /\ "file" \notin DOMAIN lastOp'
                     /\ save_btn' = save_btn
             /\ lastOp'.outcome = "saved"
                  => /\ "file" \in DOMAIN lastOp'
                     /\ save_btn' = "disabled"
     /\ (uiPc = "idle" /\ uiPc' = "saving")
          => /\ recording_data # <<>>
             /\ recording_data' = recording_data
             /\ is_recording' = is_recording]_vars

\* Save Recording was pressed after a recording that was stopped with no
\* sample
C13_Witness ==
  /\ lastOp = Op("save_recording", "no_data")
  /\ recording_data = <<>>
  /\ ~is_recording
  /\ save_btn = "normal"

\* ----------------------------------------------------------------- C14
\* thread t issues a servo or gripper command in this step
Commands(t) ==
  /\ Len(tick'[t]) > Len(tick[t])
  /\ tick'[t][Len(tick'[t])] \in {"servo", "gripper"}

\* C14: from the return of stop_control to the next start_control that
\* succeeds (the states in which teleop is None: only the end of stop_control
\* clears it and only a successful start_control sets it) no thread issues a
\* servo or gripper command and no sample is appended.
C14_NoCommandAfterStop ==
  [][teleop = None =>
       /\ \A t \in Threads : ~Commands(t)
       /\ Len(recording_data') <= Len(recording_data)]_vars

\* ----------------------------------------------------------------- C15
\* C15: in the state in which stop_control returns (the join is over and the
\* UI thread is back in the main loop or in the caller), running is false,
\* teleop is None and is_recording is false; a recording that was active is
\* stopped as toggle_recording stops it: its samples are still in
\* recording_data, their number is shown and the Save button is enabled.
C15_StopControlPostcondition ==
  [][(uiPc = "join" /\ uiPc' = "idle") =>
       /\ ~running'
       /\ teleop' = None
       /\ ~is_recording'
       /\ is_recording =>
            /\ recording_data' = recording_data
            /\ record_status' = [text |-> "Recorded",
                                 points |-> Len(recording_data)]
            /\ save_btn' = "normal"]_vars

\* Stop Control returned after a join that timed out, with the one sample of
\* the recording it stopped
C15_Witness ==
  /\ lastOp = Op("stop_btn", "join_timeout")
  /\ ~running /\ teleop = None /\ ~is_recording
  /\ Len(recording_data) = 1
  /\ record_status = [text |-> "Recorded", points |-> 1]
  /\ save_btn = "normal"

\* ----------------------------------------------------------------- C16
\* C16: running = true implies that a robot is connected, and in the state
\* in which disconnect_robot has returned robot is None and running is false.
C16_RunningImpliesRobot ==
  /\ running => robot # None
  /\ lastOp.op = "disconnect_robot" => robot = None /\ ~running

\* Disconnect was pressed while control was running and returned with the
\* control thread still alive
C16_Witness ==
  /\ lastOp = Op("disconnect_robot", "join_timeout")
  /\ robot = None /\ ~running
  /\ \E t \in Threads : Alive(t)

====
